---- MODULE Spec2Model ----
(***************************************************************************)
(* A model of Statute_Finder.py: the StatuteCrossReferenceFinder class     *)
(* (pattern registry, find_references, get_unique_references,              *)
(* create_cross_reference_map, analyze_document) and the command-line      *)
(* flow of the __main__ block.                                             *)
(*                                                                         *)
(* A text is a sequence of one-character strings.  The section mark        *)
(* U+00A7 is written "sect" (module text is ASCII); it is one character    *)
(* of the text like any other.  Offsets are Python offsets: a span (s, e)  *)
(* covers T[s+1] .. T[e] of the TLA+ sequence.                             *)
(*                                                                         *)
(* The 'groups' field of a reference (line 121) is not modelled: nothing   *)
(* in the class reads it.                                                  *)
(***************************************************************************)
EXTENDS Integers, Sequences, FiniteSets, TLC

----------------------------------------------------------------------------
(* Characters and the classes the patterns use (re.IGNORECASE, str text).  *)

SECT == "sect"
NL == "\n"

LowerLetters ==
  {"a","b","c","d","e","f","g","h","i","j","k","l","m",
   "n","o","p","q","r","s","t","u","v","w","x","y","z"}

UpperToLower ==
  [c \in {"A","B","C","D","E","F","G","H","I","J","K","L","M",
          "N","O","P","Q","R","S","T","U","V","W","X","Y","Z"} |->
     CASE c = "A" -> "a" [] c = "B" -> "b" [] c = "C" -> "c" [] c = "D" -> "d"
       [] c = "E" -> "e" [] c = "F" -> "f" [] c = "G" -> "g" [] c = "H" -> "h"
       [] c = "I" -> "i" [] c = "J" -> "j" [] c = "K" -> "k" [] c = "L" -> "l"
       [] c = "M" -> "m" [] c = "N" -> "n" [] c = "O" -> "o" [] c = "P" -> "p"
       [] c = "Q" -> "q" [] c = "R" -> "r" [] c = "S" -> "s" [] c = "T" -> "t"
       [] c = "U" -> "u" [] c = "V" -> "v" [] c = "W" -> "w" [] c = "X" -> "x"
       [] c = "Y" -> "y" [] c = "Z" -> "z"]

\* re.IGNORECASE: a character is compared by its lower-case form.
Lower(c) == IF c \in DOMAIN UpperToLower THEN UpperToLower[c] ELSE c

\* \d, \s and \w over the characters the modelled texts are made of (ASCII)
Digits == {"0","1","2","3","4","5","6","7","8","9"}
Spaces == {" ", "\n", "\t"}
WordChars == LowerLetters \cup Digits \cup {"_"}

\* \w, as \b reads it
IsWord(c) == Lower(c) \in WordChars

----------------------------------------------------------------------------
(* Regular expressions as trees, and the backtracking matcher.             *)
(* Ends(T, re, i) is the sequence of offsets at which a match of re that   *)
(* starts at offset i can end, in the order the backtracking engine tries  *)
(* them (greedy quantifiers first, alternatives left to right); the first  *)
(* element is the end re.finditer reports.                                 *)

Set(cs)  == [k |-> "set",  cs |-> cs, xs |-> <<>>]
Chr(c)   == Set({c})
WordB    == [k |-> "wb",   cs |-> {}, xs |-> <<>>]
Cat(xs)  == [k |-> "cat",  cs |-> {}, xs |-> xs]
Alt(xs)  == [k |-> "alt",  cs |-> {}, xs |-> xs]
Opt(x)   == [k |-> "opt",  cs |-> {}, xs |-> <<x>>]
Star(x)  == [k |-> "star", cs |-> {}, xs |-> <<x>>]
Plus(x)  == Cat(<<x, Star(x)>>)

Digit == Set(Digits)
Space == Set(Spaces)
Letter == Set(LowerLetters)
OptDot == Opt(Chr("."))

RECURSIVE Ends(_, _, _)
RECURSIVE EndsCat(_, _, _, _)
RECURSIVE EndsAlt(_, _, _, _)
RECURSIVE EndsEach(_, _, _, _)

\* every end of re from each start of 'starts' (from index n on), in order
EndsEach(T, re, starts, n) ==
  IF n > Len(starts) THEN <<>>
  ELSE Ends(T, re, starts[n]) \o EndsEach(T, re, starts, n + 1)

\* xs[n], xs[n+1], ... in sequence, starting at offset i
EndsCat(T, xs, n, i) ==
  IF n > Len(xs) THEN <<i>>
  ELSE LET first == Ends(T, xs[n], i)
       IN  IF first = <<>> THEN <<>>
           ELSE EndsEach(T, Cat(SubSeq(xs, n + 1, Len(xs))), first, 1)

\* the alternatives xs[n], xs[n+1], ... left to right
EndsAlt(T, xs, n, i) ==
  IF n > Len(xs) THEN <<>>
  ELSE Ends(T, xs[n], i) \o EndsAlt(T, xs, n + 1, i)

Ends(T, re, i) ==
  CASE re.k = "set" ->
         IF i < Len(T) /\ Lower(T[i + 1]) \in re.cs THEN <<i + 1>> ELSE <<>>
    [] re.k = "wb" ->
         LET before == i > 0 /\ IsWord(T[i])
             after  == i < Len(T) /\ IsWord(T[i + 1])
         IN  IF before # after THEN <<i>> ELSE <<>>
    [] re.k = "cat" -> EndsCat(T, re.xs, 1, i)
    [] re.k = "alt" -> EndsAlt(T, re.xs, 1, i)
    [] re.k = "opt" -> Ends(T, re.xs[1], i) \o <<i>>
    [] re.k = "star" ->
         LET once == SelectSeq(Ends(T, re.xs[1], i), LAMBDA j : j > i)
         IN  EndsEach(T, re, once, 1) \o <<i>>

----------------------------------------------------------------------------
(* The pattern registry of __init__, in dict order.                        *)

\* U\.?S\.?C\.?  /  C\.?F\.?R\.?
Marker(a, b, c) == <<Chr(a), OptDot, Chr(b), OptDot, Chr(c), OptDot>>

\* \s+§?\s*
SectionGap == <<Plus(Space), Opt(Chr(SECT)), Star(Space)>>

\* the mutant of PatUSC: the periods of the marker are not optional
PatUSCDotted ==
  Cat(<<WordB, Plus(Digit), Plus(Space),
        Chr("u"), Chr("."), Chr("s"), Chr("."), Chr("c"), Chr(".")>> \o SectionGap \o
      <<Plus(Digit), Opt(Letter), Opt(Cat(<<Chr("-"), Plus(Digit)>>))>>)

\* r'\b(\d+)\s+U\.?S\.?C\.?\s+§?\s*(\d+[a-z]?(?:-\d+)?)'
PatUSC ==
  Cat(<<WordB, Plus(Digit), Plus(Space)>> \o Marker("u", "s", "c") \o SectionGap \o
      <<Plus(Digit), Opt(Letter), Opt(Cat(<<Chr("-"), Plus(Digit)>>))>>)

\* r'\b(\d+)\s+C\.?F\.?R\.?\s+§?\s*(\d+(?:\.\d+)?)'
PatCFR ==
  Cat(<<WordB, Plus(Digit), Plus(Space)>> \o Marker("c", "f", "r") \o SectionGap \o
      <<Plus(Digit), Opt(Cat(<<Chr("."), Plus(Digit)>>))>>)

\* r'\b([A-Z][a-z]+)\s+(?:Code|Stat\.?|Rev\.?\s+Stat\.?)\s+§?\s*(\d+(?:[.-]\d+)*)'
PatStateCode ==
  Cat(<<WordB, Letter, Plus(Letter), Plus(Space),
        Alt(<<Cat(<<Chr("c"), Chr("o"), Chr("d"), Chr("e")>>),
              Cat(<<Chr("s"), Chr("t"), Chr("a"), Chr("t"), OptDot>>),
              Cat(<<Chr("r"), Chr("e"), Chr("v"), OptDot, Plus(Space),
                    Chr("s"), Chr("t"), Chr("a"), Chr("t"), OptDot>>)>>)>> \o
      SectionGap \o
      <<Plus(Digit), Star(Cat(<<Set({".", "-"}), Plus(Digit)>>))>>)

\* r'§\s*(\d+(?:[.-]\d+[a-z]?)*)'
PatSectionOnly ==
  Cat(<<Chr(SECT), Star(Space), Plus(Digit),
        Star(Cat(<<Set({".", "-"}), Plus(Digit), Opt(Letter)>>))>>)

\* r'\b(Pub\.?\s+L\.?\s+No\.?\s+)(\d+-\d+)'
PatStatuteYear ==
  Cat(<<WordB, Chr("p"), Chr("u"), Chr("b"), OptDot, Plus(Space),
        Chr("l"), OptDot, Plus(Space), Chr("n"), Chr("o"), OptDot, Plus(Space),
        Plus(Digit), Chr("-"), Plus(Digit)>>)

Patterns ==
  << [ref_type |-> "USC",          pattern |-> PatUSC],
     [ref_type |-> "CFR",          pattern |-> PatCFR],
     [ref_type |-> "State_Code",   pattern |-> PatStateCode],
     [ref_type |-> "Section_Only", pattern |-> PatSectionOnly],
     [ref_type |-> "Statute_Year", pattern |-> PatStatuteYear] >>

----------------------------------------------------------------------------
(* find_references                                                         *)

\* the end of the match re.match would report at offset p, or -1
MatchEnd(T, re, p) ==
  LET es == Ends(T, re, p) IN IF es = <<>> THEN -1 ELSE es[1]

RECURSIVE NextMatches(_, _, _)
\* the matches from offset pos on, given each offset's match end: the
\* leftmost start at or after pos, then on from where that match ends
NextMatches(T, ends, pos) ==
  LET starts == {p \in pos..Len(T) : ends[p] >= 0}
  IN  IF starts = {} THEN <<>>
      ELSE LET s == CHOOSE p \in starts : \A q \in starts : p <= q
               e == ends[s]
           IN  <<[full_text |-> SubSeq(T, s + 1, e), position |-> <<s, e>>]>>
               \o NextMatches(T, ends, IF e > s THEN e ELSE s + 1)

\* re.finditer(pattern, text, re.IGNORECASE): the non-overlapping matches
\* from offset pos on, left to right
FindIter(T, re, pos) ==
  NextMatches(T, [p \in 0..Len(T) |-> MatchEnd(T, re, p)], pos)

RECURSIVE ScanFromAllFamilies(_, _, _)
\* the mutant of ScanFrom: every family gets a key, matched or not
ScanFromAllFamilies(pats, T, n) ==
  IF n > Len(pats) THEN <<>>
  ELSE <<[ref_type |-> pats[n].ref_type,
          refs |-> FindIter(T, pats[n].pattern, 0)]>>
       \o ScanFromAllFamilies(pats, T, n + 1)

RECURSIVE ScanFrom(_, _, _)
\* the loop of lines 115-123; a family without a match gets no key (the
\* defaultdict creates a key on the first append only)
ScanFrom(pats, T, n) ==
  IF n > Len(pats) THEN <<>>
  ELSE LET ms == FindIter(T, pats[n].pattern, 0)
       IN  (IF ms = <<>> THEN <<>>
            ELSE <<[ref_type |-> pats[n].ref_type, refs |-> ms]>>)
           \o ScanFrom(pats, T, n + 1)

\* find_references(text): the dict as its items in insertion order
find_references(pats, T) == ScanFrom(pats, T, 1)

----------------------------------------------------------------------------
(* get_unique_references, create_cross_reference_map, analyze_document     *)

\* lines 138-143: per family, the set of the surface texts
UniqueOf(refs) ==
  [n \in 1..Len(refs) |->
     [ref_type  |-> refs[n].ref_type,
      citations |-> {refs[n].refs[m].full_text : m \in 1..Len(refs[n].refs)}]]

\* get_unique_references(text)
get_unique_references(pats, T) == UniqueOf(find_references(pats, T))

ContextRadius == 50

Max(a, b) == IF a >= b THEN a ELSE b
Min(a, b) == IF a <= b THEN a ELSE b

\* str.replace('\n', ' ')
ReplaceNewlines(s) == [n \in 1..Len(s) |-> IF s[n] = NL THEN " " ELSE s[n]]

\* the mutant of context: the window's end forgets the citation's length
context_short(T, ref) ==
  LET position == ref.position[1]
      start == Max(0, position - ContextRadius)
      end   == Min(Len(T), position + ContextRadius)
  IN  ReplaceNewlines(SubSeq(T, start + 1, end))

\* lines 160-166: text[start:end].replace('\n', ' ')
context(T, ref) ==
  LET citation == ref.full_text
      position == ref.position[1]
      start == Max(0, position - ContextRadius)
      end   == Min(Len(T), position + Len(citation) + ContextRadius)
  IN  ReplaceNewlines(SubSeq(T, start + 1, end))

EmptyMap == [c \in {} |-> <<>>]

\* the mutant of AppendAt: the entry is overwritten, not appended to
AppendAtOverwrite(map, citation, loc) ==
  [c \in DOMAIN map \cup {citation} |->
     IF c = citation THEN <<loc>> ELSE map[c]]

\* xref_map[citation].append(loc) on a defaultdict(list)
AppendAt(map, citation, loc) ==
  IF citation \in DOMAIN map
    THEN [map EXCEPT ![citation] = Append(@, loc)]
    ELSE [c \in DOMAIN map \cup {citation} |->
            IF c = citation THEN <<loc>> ELSE map[c]]

RECURSIVE IndexList(_, _, _, _)
\* the inner loop of line 159 over ref_list[m..]
IndexList(T, ref_list, m, map) ==
  IF m > Len(ref_list) THEN map
  ELSE IndexList(T, ref_list, m + 1,
         AppendAt(map, ref_list[m].full_text,
                  <<ref_list[m].position[1], context(T, ref_list[m])>>))

\* the mutant of IndexFamilies' inner walk: a family's matches right to left
Reverse(s) == [n \in 1..Len(s) |-> s[Len(s) + 1 - n]]

RECURSIVE IndexFamiliesReversed(_, _, _, _)
IndexFamiliesReversed(T, refs, n, map) ==
  IF n > Len(refs) THEN map
  ELSE IndexFamiliesReversed(T, refs, n + 1,
         IndexList(T, Reverse(refs[n].refs), 1, map))

RECURSIVE IndexFamilies(_, _, _, _)
\* lines 156-170: the outer loop of line 158 over refs.items()[n..]
IndexFamilies(T, refs, n, map) ==
  IF n > Len(refs) THEN map
  ELSE IndexFamilies(T, refs, n + 1, IndexList(T, refs[n].refs, 1, map))

XrefOf(T, refs) == IndexFamilies(T, refs, 1, EmptyMap)

\* create_cross_reference_map(text)
create_cross_reference_map(pats, T) == XrefOf(T, find_references(pats, T))

RECURSIVE SumLen(_, _)
\* sum(len(refs) for refs in d.values()), from item n on
SumLen(items, n) ==
  IF n > Len(items) THEN 0 ELSE Len(items[n].refs) + SumLen(items, n + 1)

RECURSIVE SumCard(_, _)
SumCard(items, n) ==
  IF n > Len(items) THEN 0
  ELSE Cardinality(items[n].citations) + SumCard(items, n + 1)

\* the mutant of total_refs: len(all_refs), the number of families
total_refs_families(all_refs) == Len(all_refs)

\* line 199
total_refs(all_refs) == SumLen(all_refs, 1)

\* line 200
unique_count(unique_refs) == SumCard(unique_refs, 1)

\* line 205: {k: len(v) for k, v in all_refs.items()}
ByType(all_refs) ==
  [f \in {all_refs[n].ref_type : n \in 1..Len(all_refs)} |->
     Len(all_refs[CHOOSE n \in 1..Len(all_refs) : all_refs[n].ref_type = f].refs)]

\* lines 199-209
Assemble(all_refs, unique_refs, xref_map) ==
  [total_references    |-> total_refs(all_refs),
   unique_references   |-> unique_count(unique_refs),
   by_type             |-> ByType(all_refs),
   unique_citations    |-> unique_refs,
   cross_reference_map |-> xref_map,
   all_references      |-> all_refs]

\* analyze_document(text), as one call
analyze_document(pats, T) ==
  Assemble(find_references(pats, T), get_unique_references(pats, T),
           create_cross_reference_map(pats, T))

----------------------------------------------------------------------------
(* The texts the calls are made on.                                        *)

MaxTokens == 3

\* "42 USC 1983"
TokUSC == <<"4","2"," ","U","S","C"," ","1","9","8","3">>
\* "§ 1983a"
TokSectLetter == <<SECT," ","1","9","8","3","a">>
\* "§ 12.5-3b"
TokSectSub == <<SECT," ","1","2",".","5","-","3","b">>
\* filler of ContextRadius characters: words of four letters, one line break
TokPad ==
  [n \in 1..ContextRadius |->
     IF n = 20 THEN NL ELSE IF n % 5 = 0 THEN " " ELSE "x"]
TokNL == <<NL>>

Tokens == {TokUSC, TokSectLetter, TokSectSub, TokPad, TokNL}

RECURSIVE Concat(_)
Concat(ts) == IF ts = <<>> THEN <<>> ELSE Head(ts) \o Concat(Tail(ts))

\* "42 U.S.C. § 1983 grants relief. See also 42 USC 1983 and 29 CFR 1910.1200."
ScenarioText ==
  <<"4","2"," ","U",".","S",".","C","."," ",SECT," ","1","9","8","3"," ",
    "g","r","a","n","t","s"," ","r","e","l","i","e","f","."," ",
    "S","e","e"," ","a","l","s","o"," ","4","2"," ","U","S","C"," ",
    "1","9","8","3"," ","a","n","d"," ","2","9"," ","C","F","R"," ",
    "1","9","1","0",".","1","2","0","0",".">>

\* "Ohio Rev. Stat. § 12.5-3; Pub. L. No. 117-58"
StateText ==
  <<"O","h","i","o"," ","R","e","v","."," ","S","t","a","t","."," ",SECT," ",
    "1","2",".","5","-","3",";"," ",
    "P","u","b","."," ","L","."," ","N","o","."," ","1","1","7","-","5","8">>

Texts ==
  {Concat(ts) : ts \in UNION {[1..n -> Tokens] : n \in 0..MaxTokens}}
  \cup {ScenarioText, StateText}

----------------------------------------------------------------------------
(* The finder object and the calls made on it.  A call in progress is a    *)
(* stack of frames [fn, at]: the function and the source line it is at.    *)

VARIABLES
  patterns,     \* self.patterns
  text,         \* the text the call in progress was given
  stack,        \* frames of the call in progress, outermost first
  last_call,    \* the function the outermost call is (or was) of
  refs_ret,     \* what the latest find_references returned
  uniq_ret,     \* what the latest get_unique_references returned
  xref_ret,     \* what the latest create_cross_reference_map returned
  all_refs,     \* analyze_document's local all_refs
  unique_refs,  \* analyze_document's local unique_refs
  result,       \* what analyze_document returned
  scans,        \* executions of find_references within the outermost call
  dedups,       \* executions of lines 138-143 within the outermost call
  indexings,    \* executions of lines 156-170 within the outermost call
  used          \* an earlier call on this finder has returned

vars == <<patterns, text, stack, last_call, refs_ret, uniq_ret, xref_ret,
          all_refs, unique_refs, result, scans, dedups, indexings, used>>

VARIABLES
  cli_pc,       \* where the __main__ block is
  file_path,    \* file_path after lines 282-285
  exc,          \* the exception raised inside the try block, or "none"
  analysis,     \* <<>>, or <<the dict analyze_file returned>>
  save_option,  \* save_option after line 308
  printed,      \* the kinds of output printed from line 282 on
  written,      \* the report file has been written (lines 315-316)
  exit_status,  \* "running", "returned", "exit1" or "uncaught"
  load_failed   \* load_document raised

cli == <<cli_pc, file_path, exc, analysis, save_option, printed, written,
         exit_status, load_failed>>

lib == vars

CliIdle ==
  /\ cli_pc = "prompt"
  /\ file_path = <<>>
  /\ exc = "none"
  /\ analysis = <<>>
  /\ save_option = <<>>
  /\ printed = {}
  /\ written = FALSE
  /\ exit_status = "running"
  /\ load_failed = FALSE

Functions ==
  {"find_references", "get_unique_references", "create_cross_reference_map",
   "analyze_document"}

Frame(fn, at) == [fn |-> fn, at |-> at]

\* the line a call of fn starts at
Entry(fn) ==
  CASE fn = "find_references" -> 113
    [] fn = "get_unique_references" -> 137
    [] fn = "create_cross_reference_map" -> 155
    [] fn = "analyze_document" -> 195

NoResult == <<>>

Top == stack[Len(stack)]
At(fn, line) == stack # <<>> /\ Top = Frame(fn, line)
Pop == SubSeq(stack, 1, Len(stack) - 1)
\* the caller moves on to line 'next' and the callee's frame is pushed
CallFrom(next, callee) ==
  Append(Pop, Frame(Top.fn, next)) \o <<Frame(callee, Entry(callee))>>

\* the finder after __init__, no call made
Fresh ==
  /\ patterns = Patterns
  /\ text = <<>>
  /\ stack = <<>>
  /\ last_call = "none"
  /\ refs_ret = <<>>
  /\ uniq_ret = <<>>
  /\ xref_ret = EmptyMap
  /\ all_refs = <<>>
  /\ unique_refs = <<>>
  /\ result = NoResult
  /\ scans = 0
  /\ dedups = 0
  /\ indexings = 0
  /\ used = FALSE

Init == Fresh /\ CliIdle

\* a caller calls one of the four methods on a text
Call ==
  /\ stack = <<>>
  /\ last_call = "none"
  /\ \E fn \in Functions, T \in Texts :
       /\ text' = T
       /\ stack' = <<Frame(fn, Entry(fn))>>
       /\ last_call' = fn
  /\ UNCHANGED <<patterns, refs_ret, uniq_ret, xref_ret, all_refs,
                 unique_refs, result, scans, dedups, indexings, used>>
  /\ UNCHANGED cli

\* the caller lets go of what the call returned; the finder object stays
Drop ==
  /\ stack = <<>>
  /\ last_call # "none"
  /\ text' = <<>>
  /\ last_call' = "none"
  /\ refs_ret' = <<>>
  /\ uniq_ret' = <<>>
  /\ xref_ret' = EmptyMap
  /\ all_refs' = <<>>
  /\ unique_refs' = <<>>
  /\ result' = NoResult
  /\ scans' = 0
  /\ dedups' = 0
  /\ indexings' = 0
  /\ used' = TRUE
  /\ UNCHANGED <<patterns, stack>>
  /\ UNCHANGED cli

\* the mutant of FR_Run: the scan takes the patterns out of the registry
FR_RunConsuming ==
  /\ At("find_references", 113)
  /\ refs_ret' = find_references(patterns, text)
  /\ scans' = scans + 1
  /\ stack' = Pop
  /\ patterns' = <<>>
  /\ UNCHANGED <<text, last_call, uniq_ret, xref_ret, all_refs,
                 unique_refs, result, dedups, indexings, used>>
  /\ UNCHANGED cli

\* find_references, lines 113-125
FR_Run ==
  /\ At("find_references", 113)
  /\ refs_ret' = find_references(patterns, text)
  /\ scans' = scans + 1
  /\ stack' = Pop
  /\ UNCHANGED <<patterns, text, last_call, uniq_ret, xref_ret, all_refs,
                 unique_refs, result, dedups, indexings, used>>
  /\ UNCHANGED cli

\* the mutant of GU_CallFind: the scan is skipped when one was already made
GU_CallFindCached ==
  /\ At("get_unique_references", 137)
  /\ stack' = IF scans > 0 THEN Append(Pop, Frame(Top.fn, 138))
                           ELSE CallFrom(138, "find_references")
  /\ UNCHANGED <<patterns, text, last_call, refs_ret, uniq_ret, xref_ret,
                 all_refs, unique_refs, result, scans, dedups, indexings, used>>
  /\ UNCHANGED cli

\* get_unique_references, line 137: refs = self.find_references(text)
GU_CallFind ==
  /\ At("get_unique_references", 137)
  /\ stack' = CallFrom(138, "find_references")
  /\ UNCHANGED <<patterns, text, last_call, refs_ret, uniq_ret, xref_ret,
                 all_refs, unique_refs, result, scans, dedups, indexings, used>>
  /\ UNCHANGED cli

\* get_unique_references, lines 138-143
GU_Return ==
  /\ At("get_unique_references", 138)
  /\ uniq_ret' = UniqueOf(refs_ret)
  /\ dedups' = dedups + 1
  /\ stack' = Pop
  /\ UNCHANGED <<patterns, text, last_call, refs_ret, xref_ret, all_refs,
                 unique_refs, result, scans, indexings, used>>
  /\ UNCHANGED cli

\* create_cross_reference_map, line 155: refs = self.find_references(text)
CX_CallFind ==
  /\ At("create_cross_reference_map", 155)
  /\ stack' = CallFrom(156, "find_references")
  /\ UNCHANGED <<patterns, text, last_call, refs_ret, uniq_ret, xref_ret,
                 all_refs, unique_refs, result, scans, dedups, indexings, used>>
  /\ UNCHANGED cli

\* create_cross_reference_map, lines 156-170
CX_Return ==
  /\ At("create_cross_reference_map", 156)
  /\ xref_ret' = XrefOf(text, refs_ret)
  /\ indexings' = indexings + 1
  /\ stack' = Pop
  /\ UNCHANGED <<patterns, text, last_call, refs_ret, uniq_ret, all_refs,
                 unique_refs, result, scans, dedups, used>>
  /\ UNCHANGED cli

\* analyze_document, line 195: the call of find_references
AD_CallFind ==
  /\ At("analyze_document", 195)
  /\ stack' = CallFrom(196, "find_references")
  /\ UNCHANGED <<patterns, text, last_call, refs_ret, uniq_ret, xref_ret,
                 all_refs, unique_refs, result, scans, dedups, indexings, used>>
  /\ UNCHANGED cli

\* line 195's assignment, and line 196: the call of get_unique_references
AD_CallUnique ==
  /\ At("analyze_document", 196)
  /\ all_refs' = refs_ret
  /\ stack' = CallFrom(197, "get_unique_references")
  /\ UNCHANGED <<patterns, text, last_call, refs_ret, uniq_ret, xref_ret,
                 unique_refs, result, scans, dedups, indexings, used>>
  /\ UNCHANGED cli

\* line 196's assignment, and line 197: the call of create_cross_reference_map
AD_CallXref ==
  /\ At("analyze_document", 197)
  /\ unique_refs' = uniq_ret
  /\ stack' = CallFrom(199, "create_cross_reference_map")
  /\ UNCHANGED <<patterns, text, last_call, refs_ret, uniq_ret, xref_ret,
                 all_refs, result, scans, dedups, indexings, used>>
  /\ UNCHANGED cli

\* line 197's assignment, and lines 199-209
AD_Return ==
  /\ At("analyze_document", 199)
  /\ result' = Assemble(all_refs, unique_refs, xref_ret)
  /\ stack' = Pop
  /\ UNCHANGED <<patterns, text, last_call, refs_ret, uniq_ret, xref_ret,
                 all_refs, unique_refs, scans, dedups, indexings, used>>
  /\ UNCHANGED cli

Next ==
  \/ Call
  \/ Drop
  \/ FR_Run
  \/ GU_CallFind
  \/ GU_Return
  \/ CX_CallFind
  \/ CX_Return
  \/ AD_CallFind
  \/ AD_CallUnique
  \/ AD_CallXref
  \/ AD_Return

Spec == Init /\ [][Next]_<<vars, cli>>

\* the outermost call has returned
Returned(fn) == stack = <<>> /\ last_call = fn

----------------------------------------------------------------------------
(* The __main__ block: prompt for a path, analyze the file, print the      *)
(* report, offer to save it.                                               *)

MaxWrap == 2

DQ == "\""
SQ == "'"

RECURSIVE LStrip(_, _)
LStrip(s, cs) ==
  IF s # <<>> /\ Head(s) \in cs THEN LStrip(Tail(s), cs) ELSE s

RECURSIVE RStrip(_, _)
RStrip(s, cs) ==
  IF s # <<>> /\ s[Len(s)] \in cs THEN RStrip(SubSeq(s, 1, Len(s) - 1), cs) ELSE s

\* str.strip(chars)
Strip(s, cs) == RStrip(LStrip(s, cs), cs)

\* str.lower()
LowerStr(s) == [n \in 1..Len(s) |-> Lower(s[n])]

\* lines 282-285: input(...).strip(), then .strip('"').strip("'")
StripPath(raw) == Strip(Strip(Strip(raw, Spaces), {DQ}), {SQ})

\* Path(...).suffix: from the last dot of the name on, unless that dot is the
\* first or the last character
Suffix(path) ==
  LET dots == {n \in 1..Len(path) : path[n] = "."}
  IN  IF dots = {} THEN <<>>
      ELSE LET i == CHOOSE n \in dots : \A m \in dots : m <= n
           IN  IF 1 < i /\ i < Len(path) THEN SubSeq(path, i, Len(path)) ELSE <<>>

ExtTxt  == <<".","t","x","t">>
ExtPdf  == <<".","p","d","f">>
ExtDocx == <<".","d","o","c","x">>
ExtDoc  == <<".","d","o","c">>

Loaded(T) == [exc |-> "none", text |-> T]
Raised(e) == [exc |-> e, text |-> <<>>]

\* _load_txt, lines 64-67: open() or read() may raise an OSError
_load_txt(env) == IF env.opens THEN Loaded(env.content) ELSE Raised("OSError")

\* _load_pdf, lines 69-85: an error inside the try becomes a ValueError; a
\* page whose extract_text() is None makes the join of line 85 raise
_load_pdf(env) ==
  IF ~env.pdf_available THEN Raised("ValueError")
  ELSE IF ~env.opens THEN Raised("ValueError")
  ELSE IF ~env.pages_text THEN Raised("TypeError")
  ELSE Loaded(env.content)

\* _load_docx, lines 87-101
_load_docx(env) ==
  IF ~env.docx_available THEN Raised("ValueError")
  ELSE IF ~env.opens THEN Raised("ValueError")
  ELSE Loaded(env.content)

\* load_document, lines 48-62
load_document(path, env) ==
  IF ~env.exists THEN Raised("FileNotFoundError")
  ELSE LET extension == LowerStr(Suffix(path))
       IN  IF extension = ExtTxt THEN _load_txt(env)
           ELSE IF extension = ExtPdf THEN _load_pdf(env)
           ELSE IF extension \in {ExtDocx, ExtDoc} THEN _load_docx(env)
           ELSE Raised("ValueError")

\* the classes an exception is an instance of
Classes(e) ==
  CASE e = "FileNotFoundError" -> {"FileNotFoundError", "OSError", "Exception"}
    [] e = "OSError" -> {"OSError", "Exception"}
    [] e = "ValueError" -> {"ValueError", "Exception"}
    [] e = "TypeError" -> {"TypeError", "Exception"}

\* the mutant of Handler: the except clauses without the catch-all
HandlerNoCatchAll(e) ==
  IF "FileNotFoundError" \in Classes(e) THEN "file_not_found"
  ELSE IF "ValueError" \in Classes(e) THEN "value_error"
  ELSE "uncaught"

\* lines 322-329: the message the first matching except clause prints
Handler(e) ==
  IF "FileNotFoundError" \in Classes(e) THEN "file_not_found"
  ELSE IF "ValueError" \in Classes(e) THEN "value_error"
  ELSE IF "Exception" \in Classes(e) THEN "unexpected_error"
  ELSE "uncaught"

\* what the user may type around a path
Wrappers == UNION {[1..n -> {" ", DQ, SQ}] : n \in 0..MaxWrap}

Names ==
  { <<>>,
    <<"a",".","t","x","t">>,
    <<"a",".","P","D","F">>,
    <<"a",".","d","o","c","x">>,
    <<"a",".","m","d">> }

RawPaths == {pre \o name \o post : pre \in Wrappers, name \in Names, post \in Wrappers}

Answers ==
  { <<"y">>, <<" ","Y","E","S"," ">>, <<"y","e","s">>, <<"n","o">>, <<>>,
    <<"y","e">> }

SaveYes == {<<"y","e","s">>, <<"y">>}

FileTexts == {<<>>, TokUSC, ScenarioText}

Envs ==
  [exists : BOOLEAN, pdf_available : BOOLEAN, docx_available : BOOLEAN,
   opens : BOOLEAN, pages_text : BOOLEAN, content : FileTexts]

InitCLI == Fresh /\ CliIdle

\* lines 282-285
Prompt ==
  /\ cli_pc = "prompt"
  /\ \E raw \in RawPaths : file_path' = StripPath(raw)
  /\ cli_pc' = "check"
  /\ UNCHANGED <<exc, analysis, save_option, printed, written, exit_status,
                 load_failed>>
  /\ UNCHANGED lib

\* lines 287-289: no path, exit(1)
ExitNoPath ==
  /\ cli_pc = "check"
  /\ file_path = <<>>
  /\ printed' = printed \cup {"no_path"}
  /\ exit_status' = "exit1"
  /\ cli_pc' = "exited"
  /\ UNCHANGED <<file_path, exc, analysis, save_option, written, load_failed>>
  /\ UNCHANGED lib

\* lines 287-298: a path was given; the finder is made, the try block entered
StartProcessing ==
  /\ cli_pc = "check"
  /\ file_path # <<>>
  /\ printed' = printed \cup {"processing"}
  /\ cli_pc' = "analyze"
  /\ UNCHANGED <<file_path, exc, analysis, save_option, written, exit_status,
                 load_failed>>
  /\ UNCHANGED lib

\* line 301: analyze_file (lines 182-183), the file being whatever it is
AnalyzeFile ==
  /\ cli_pc = "analyze"
  /\ \E env \in Envs :
       LET loaded == load_document(file_path, env)
       IN  IF loaded.exc # "none"
             THEN /\ exc' = loaded.exc
                  /\ load_failed' = TRUE
                  /\ cli_pc' = "except"
                  /\ UNCHANGED analysis
             ELSE /\ analysis' = <<analyze_document(patterns, loaded.text)>>
                  /\ cli_pc' = "report"
                  /\ UNCHANGED <<exc, load_failed>>
  /\ UNCHANGED <<file_path, save_option, printed, written, exit_status>>
  /\ UNCHANGED lib

\* lines 304-308: the report is printed, the save prompt shown and answered
PrintReport ==
  /\ cli_pc = "report"
  /\ printed' = printed \cup {"report", "save_prompt"}
  /\ \E answer \in Answers : save_option' = LowerStr(Strip(answer, Spaces))
  /\ cli_pc' = "save"
  /\ UNCHANGED <<file_path, exc, analysis, written, exit_status, load_failed>>
  /\ UNCHANGED lib

\* lines 310-320 on 'yes' or 'y': the file is written, unless open() raises
SaveReport ==
  /\ cli_pc = "save"
  /\ save_option \in SaveYes
  /\ \E writable \in BOOLEAN :
       IF writable
         THEN /\ written' = TRUE
              /\ printed' = printed \cup {"saved", "complete"}
              /\ exit_status' = "returned"
              /\ cli_pc' = "done"
              /\ UNCHANGED exc
         ELSE /\ exc' = "OSError"
              /\ cli_pc' = "except"
              /\ UNCHANGED <<written, printed, exit_status>>
  /\ UNCHANGED <<file_path, analysis, save_option, load_failed>>
  /\ UNCHANGED lib

\* lines 310 and 320 on any other answer
SkipSave ==
  /\ cli_pc = "save"
  /\ save_option \notin SaveYes
  /\ printed' = printed \cup {"complete"}
  /\ exit_status' = "returned"
  /\ cli_pc' = "done"
  /\ UNCHANGED <<file_path, exc, analysis, save_option, written, load_failed>>
  /\ UNCHANGED lib

\* lines 322-329
HandleException ==
  /\ cli_pc = "except"
  /\ IF Handler(exc) = "uncaught"
       THEN exit_status' = "uncaught" /\ UNCHANGED printed
       ELSE exit_status' = "returned" /\ printed' = printed \cup {Handler(exc)}
  /\ cli_pc' = "done"
  /\ UNCHANGED <<file_path, exc, analysis, save_option, written, load_failed>>
  /\ UNCHANGED lib

NextCLI ==
  \/ Prompt
  \/ ExitNoPath
  \/ StartProcessing
  \/ AnalyzeFile
  \/ PrintReport
  \/ SaveReport
  \/ SkipSave
  \/ HandleException

allvars == <<lib, cli>>

SpecCLI == InitCLI /\ [][NextCLI]_allvars

ErrorMessages == {"file_not_found", "value_error", "unexpected_error"}

\* C8: an empty path ends the process with status 1 before any analysis; a
\* loader failure ends in a printed error message and a normal return, never
\* an uncaught exception, with no report printed, no save prompt shown and no
\* file written; a report file is written only after a successful analysis
\* and a 'yes' or 'y' answer.
C8_CliErrors ==
  /\ (cli_pc \notin {"prompt", "check"}) =>
        ((file_path = <<>>) <=> (exit_status = "exit1"))
  /\ exit_status = "exit1" =>
        (cli_pc = "exited" /\ analysis = <<>> /\ ~load_failed /\ ~written
         /\ printed = {"no_path"})
  /\ load_failed =>
        /\ file_path # <<>>
        /\ analysis = <<>>
        /\ exit_status # "uncaught"
        /\ printed \cap {"report", "save_prompt", "saved"} = {}
        /\ ~written
        /\ cli_pc \in {"except", "done"}
        /\ cli_pc = "done" =>
              (exit_status = "returned" /\ printed \cap ErrorMessages # {})
  /\ exit_status # "uncaught"
  /\ written => (Len(analysis) = 1 /\ save_option \in SaveYes /\ ~load_failed)

C8_Witness ==
  /\ cli_pc = "done"
  /\ load_failed
  /\ exc = "OSError"
  /\ "unexpected_error" \in printed
  /\ exit_status = "returned"

----------------------------------------------------------------------------
(* Properties of the class.                                                *)

Analyzed == Returned("analyze_document")

\* "42 U.S.C. § 1983"
KeyUSCDotted ==
  <<"4","2"," ","U",".","S",".","C","."," ",SECT," ","1","9","8","3">>
\* "29 CFR 1910.1200"
KeyCFR == <<"2","9"," ","C","F","R"," ","1","9","1","0",".","1","2","0","0">>
\* "§ 1983"
KeySection == <<SECT," ","1","9","8","3">>

\* the raw matches (family item n, match m) of refs
Matches(refs) ==
  UNION {{<<n, m>> : m \in 1..Len(refs[n].refs)} : n \in 1..Len(refs)}

\* the (family item, surface text) pairs of refs
Surfaces(refs) ==
  UNION {{<<n, refs[n].refs[m].full_text>> : m \in 1..Len(refs[n].refs)} :
         n \in 1..Len(refs)}

\* the locations (key, index) of a cross-reference map
Locations(map) ==
  UNION {{<<c, i>> : i \in 1..Len(map[c])} : c \in DOMAIN map}

\* C1 as the spec states it: the scenario text gives total_references = 3,
\* unique_references = 3 and three keys with one location each, USC giving
\* two matches, CFR one and no other family any.
C1_ScenarioThree ==
  (Analyzed /\ text = ScenarioText) =>
     /\ result.total_references = 3
     /\ result.unique_references = 3
     /\ DOMAIN result.cross_reference_map = {KeyUSCDotted, TokUSC, KeyCFR}
     /\ \A c \in DOMAIN result.cross_reference_map :
          Len(result.cross_reference_map[c]) = 1
     /\ DOMAIN result.by_type = {"USC", "CFR"}
     /\ result.by_type["USC"] = 2
     /\ result.by_type["CFR"] = 1

\* C1 (amended): for the scenario text analyze_document returns
\* total_references = 4, unique_references = 4 and four keys, "42 U.S.C. § 1983",
\* "42 USC 1983", "29 CFR 1910.1200" and "§ 1983", each with one location: USC
\* gives two raw matches, CFR one, Section_Only one ("§ 1983", at offset 10)
\* and no other family any.
C1_ScenarioFour ==
  (Analyzed /\ text = ScenarioText) =>
     /\ result.total_references = 4
     /\ result.unique_references = 4
     /\ DOMAIN result.cross_reference_map =
          {KeyUSCDotted, TokUSC, KeyCFR, KeySection}
     /\ \A c \in DOMAIN result.cross_reference_map :
          Len(result.cross_reference_map[c]) = 1
     /\ result.cross_reference_map[KeySection][1][1] = 10
     /\ DOMAIN result.by_type = {"USC", "CFR", "Section_Only"}
     /\ result.by_type["USC"] = 2
     /\ result.by_type["CFR"] = 1
     /\ result.by_type["Section_Only"] = 1

C1_Witness == Analyzed /\ text = ScenarioText /\ result.total_references = 4

\* C2: the result of analyze_document has unique_references <=
\* total_references, total_references being the number of raw matches summed
\* over the families and unique_references the number of distinct surface
\* texts summed over the families.
C2_UniqueAtMostTotal ==
  Analyzed =>
     /\ result.unique_references <= result.total_references
     /\ result.total_references = Cardinality(Matches(result.all_references))
     /\ result.unique_references = Cardinality(Surfaces(result.all_references))

C2_Witness ==
  /\ Analyzed
  /\ result.unique_references < result.total_references
  /\ Len(result.all_references) >= 2

\* C3: a surface text has exactly one cross-reference entry, whose location
\* list is as long as the number of raw matches, over all families, with that
\* surface text; the location lists together are as long as total_references.
C3_OneEntryPerSurface ==
  Analyzed =>
     LET map == result.cross_reference_map
         refs == result.all_references
     IN  /\ DOMAIN map = {p[2] : p \in Surfaces(refs)}
         /\ \A c \in DOMAIN map :
              Len(map[c]) =
                Cardinality({p \in Matches(refs) :
                               refs[p[1]].refs[p[2]].full_text = c})
         /\ Cardinality(Locations(map)) = result.total_references

C3_Witness ==
  /\ Analyzed
  /\ \E c \in DOMAIN result.cross_reference_map :
       Len(result.cross_reference_map[c]) >= 2
  /\ Len(result.all_references) >= 2

\* C4: the context of a match with span (s, e) is the text from max(0, s-50)
\* to min(len, e+50) with each newline replaced by a space: it is
\* len(surface) + 100 long when s >= 50 and e + 50 <= len, shorter otherwise,
\* and the window stays within 0 .. len.
C4_ContextWindow ==
  Analyzed =>
     LET map == result.cross_reference_map IN
     \A loc \in Locations(map) :
        LET c   == loc[1]
            s   == map[c][loc[2]][1]
            ctx == map[c][loc[2]][2]
            e   == s + Len(c)
            lo  == IF s - 50 < 0 THEN 0 ELSE s - 50
            hi  == IF e + 50 > Len(text) THEN Len(text) ELSE e + 50
        IN  /\ 0 <= lo /\ lo <= s /\ e <= hi /\ hi <= Len(text)
            /\ Len(ctx) = hi - lo
            /\ \A j \in 1..Len(ctx) :
                 ctx[j] = IF text[lo + j] = NL THEN " " ELSE text[lo + j]
            /\ (s >= 50 /\ e + 50 <= Len(text)) => Len(ctx) = Len(c) + 100
            /\ ~(s >= 50 /\ e + 50 <= Len(text)) => Len(ctx) < Len(c) + 100

C4_Witness ==
  /\ Analyzed
  /\ \E loc \in Locations(result.cross_reference_map) :
       LET c == loc[1]
           s == result.cross_reference_map[c][loc[2]][1]
       IN  /\ s >= 50
           /\ s + Len(c) + 50 <= Len(text)
           /\ \E j \in (s - 49)..(s + Len(c) + 50) : text[j] = NL
           /\ Len(result.cross_reference_map[c][loc[2]][2]) = Len(c) + 100

Families == {Patterns[n].ref_type : n \in 1..Len(Patterns)}

\* C5 as the spec states it: for the empty string analyze_document returns
\* a per-family count of 0 for every family of the registry.
C5_ZeroCountPerFamily ==
  (Analyzed /\ text = <<>>) =>
     /\ result.total_references = 0
     /\ result.unique_references = 0
     /\ \A f \in Families :
          f \in DOMAIN result.by_type /\ result.by_type[f] = 0
     /\ DOMAIN result.cross_reference_map = {}

\* C5 (amended): for the empty string find_references returns an empty dict
\* (no family of the registry has a key) and analyze_document returns
\* total_references = 0, unique_references = 0, an empty by_type (no family
\* has a count), an empty unique_citations and an empty cross_reference_map.
C5_EmptyText ==
  /\ (Returned("find_references") /\ text = <<>>) => refs_ret = <<>>
  /\ (Analyzed /\ text = <<>>) =>
        /\ result.total_references = 0
        /\ result.unique_references = 0
        /\ DOMAIN result.by_type = {}
        /\ result.all_references = <<>>
        /\ result.unique_citations = <<>>
        /\ DOMAIN result.cross_reference_map = {}

C5_Witness ==
  Analyzed /\ text = <<>> /\ result.total_references = 0 /\ scans = 3

\* C6: the registry is never changed by a call, and whatever calls were made
\* on the finder before, analyze_document(T) returns what it returns on a
\* fresh finder.
C6_Stateless ==
  /\ patterns = Patterns
  /\ Analyzed => result = analyze_document(Patterns, text)

C6_Witness == Analyzed /\ used /\ result.total_references >= 2

\* C7 as the spec states it: one analyze_document call scans the text once,
\* deduplicates once and indexes once.
C7_OneScan == Analyzed => (scans = 1 /\ dedups = 1 /\ indexings = 1)

\* C7 (amended): one analyze_document call runs the deduplication and the
\* indexing once each and the scan of the text three times: once itself, once
\* within get_unique_references and once within create_cross_reference_map.
C7_ThreeScans ==
  /\ Analyzed => (scans = 3 /\ dedups = 1 /\ indexings = 1)
  /\ Returned("get_unique_references") => (scans = 1 /\ dedups = 1)
  /\ Returned("create_cross_reference_map") => (scans = 1 /\ indexings = 1)
  /\ Returned("find_references") => scans = 1

C7_Witness == Analyzed /\ scans = 3 /\ result.total_references >= 1

\* the Section_Only matches of a find_references result
SectionOnlyTexts(refs) ==
  {p[2] : p \in {q \in Surfaces(refs) : refs[q[1]].ref_type = "Section_Only"}}

\* C9: the Section_Only rule accepts a trailing letter with or without a
\* sub-part: in "§ 1983a" it matches "§ 1983a", in "§ 12.5-3b" it matches
\* "§ 12.5-3b".
C9_TrailingLetter ==
  /\ (Returned("find_references") /\ text = TokSectLetter) =>
        SectionOnlyTexts(refs_ret) = {TokSectLetter}
  /\ (Returned("find_references") /\ text = TokSectSub) =>
        SectionOnlyTexts(refs_ret) = {TokSectSub}

\* the place of a family in the registry
RegistryIndex(f) == CHOOSE n \in 1..Len(Patterns) : Patterns[n].ref_type = f

\* the registry places of the families that matched surface text c at offset s
Contributors(refs, c, s) ==
  {RegistryIndex(refs[p[1]].ref_type) :
     p \in {q \in Matches(refs) :
              /\ refs[q[1]].refs[q[2]].full_text = c
              /\ refs[q[1]].refs[q[2]].position[1] = s}}

\* C10: in every location list, two locations of one family are in strictly
\* ascending start order, and a location of an earlier family of the registry
\* comes before any location of a later family; the families of a result are
\* in registry order and each family's matches run left to right.
C10_AppendOrder ==
  Analyzed =>
     LET map == result.cross_reference_map
         refs == result.all_references
     IN  /\ \A n \in 1..Len(refs) : \A m \in 1..Len(refs) :
              n < m => RegistryIndex(refs[n].ref_type) < RegistryIndex(refs[m].ref_type)
         /\ \A p \in Matches(refs) : \A q \in Matches(refs) :
              (p[1] = q[1] /\ p[2] < q[2]) =>
                 refs[p[1]].refs[p[2]].position[2] <= refs[q[1]].refs[q[2]].position[1]
         /\ \A c \in DOMAIN map : \A i \in 1..Len(map[c]) : \A j \in 1..Len(map[c]) :
              i < j =>
                 \E fi \in Contributors(refs, c, map[c][i][1]) :
                 \E fj \in Contributors(refs, c, map[c][j][1]) :
                    \/ fi < fj
                    \/ fi = fj /\ map[c][i][1] < map[c][j][1]

C10_Witness ==
  /\ Analyzed
  /\ \E c \in DOMAIN result.cross_reference_map :
       /\ Len(result.cross_reference_map[c]) >= 2
       /\ result.cross_reference_map[c][1][1] < result.cross_reference_map[c][2][1]

\* No surface text is matched by two families of the registry: the families'
\* matches begin differently (digits then U, digits then C, a word then a
\* code marker, the section mark, "Pub").
NoSharedSurface ==
  Analyzed =>
     \A p \in Surfaces(result.all_references) :
     \A q \in Surfaces(result.all_references) :
        p[2] = q[2] => p[1] = q[1]
====
